---- MODULE Spec2Model ----
(***************************************************************************)
(* Model of the payment engine (marot/toy-payment-engine).                 *)
(*                                                                         *)
(*   - the per-client ledger, ClientState::apply_operation                 *)
(*     (src/src/client_state.rs), checked under SpecLedger;                *)
(*   - the batch pipeline of src/src/lib.rs (reader loop, dispatch tasks,  *)
(*     per-client worker tasks, final drain), checked under Spec.          *)
(*                                                                         *)
(* Amounts are the scaled i64 integers of the program (1 = 1/10000 unit).  *)
(***************************************************************************)
EXTENDS Integers, Sequences, FiniteSets, TLC

VARIABLES
    \* ---- ledger (SpecLedger) ----
    cs,          \* the ClientState under test
    pre,         \* cs before the last applied operation
    last,        \* the last operation handed to apply_operation
    beforeDispute, \* cs before the last Dispute that took effect, kept while that
                 \* Dispute is the last operation (age 1) or the one before (age 2)
    nops,        \* number of operations applied so far
    deposited,   \* sum of the amounts of the Deposits that were applied
    withdrawn,   \* sum of the amounts of the Withdrawals that succeeded
    chargedBack, \* sum of the amounts of the transactions charged back
    wids,        \* tx_ids that were carried by a Withdrawal
    \* ---- pipeline (Spec) ----
    input,            \* the rows of the input file after the header
    chunk_size,       \* rows per batch (lines_per_batch)
    pos,              \* rows the reader has consumed
    mainPc,           \* position of read_file_and_output_to_writer
    last_task_handle, \* id of the last spawned dispatch task, 0 for None
    tasks,            \* the dispatch tasks (parse_and_compute), by id
    lock,             \* holder of the Mutex<ClientHandles>: 0 free, Main, or a task id
    client_work,      \* ClientHandles.client_work: client -> worker id
    workers,          \* the per-client worker tasks, by id
    drainCur,         \* the handle serialize_work is awaiting, 0 for none
    applied,          \* per client, the operations apply_operation was called with
    final,            \* per client, the ClientState handed to the report
    report,           \* the rows written to the writer, in order
    opened,           \* File::open of the input succeeded
    exit_code,        \* exit status of the process, << >> while it runs
    \* ---- read_num_lines on a BufReader (SpecReader) ----
    stream,       \* the bytes of the underlying reader
    capacity,     \* capacity of the BufReader's internal buffer
    rpos,         \* bytes of the stream consumed from the BufReader
    filled,       \* bytes held in the internal buffer and not yet consumed
    num_lines,    \* argument of the current call
    buf,          \* the bytes the current call has appended to buf
    read,         \* local of read_num_lines
    iteration,    \* local of read_num_lines
    used,         \* local of read_num_lines
    readerPc,     \* "idle" between calls, "fill" before fill_buf, "scan" in the inner loop
    ret,          \* <<n>> after the call returned Ok(n), << >> otherwise
    start,        \* rpos when the current call began
    out,          \* all bytes appended to buf by all calls, in order
    ncalls,       \* calls made so far
    interrupts,   \* fill_buf calls that returned Interrupted so far
    \* ---- decoding and formatting of one row (SpecCodec) ----
    record_type,  \* the type field of the row
    amount_field, \* the amount field: <<text>>, or << >> when the row has three fields
    deserialized, \* <<result>> of deserializing the row, << >> before
    formatted,    \* <<text>> written by serialize_fractional for the amount, << >> before
    codecPc,      \* "start", "decoded", "formatted"
    \* ---- serialize_fractional on two amounts (SpecFormat) ----
    values,       \* the two i64 amounts to write
    texts         \* what serialize_fractional wrote for them so far, in order

ledgerVars == <<cs, pre, last, beforeDispute, nops, deposited, withdrawn, chargedBack, wids>>

pipeVars == <<input, chunk_size, pos, mainPc, last_task_handle, tasks, lock,
              client_work, workers, drainCur, applied, final, report, opened, exit_code>>

readerVars == <<stream, capacity, rpos, filled, num_lines, buf, read, iteration, used,
                readerPc, ret, start, out, ncalls, interrupts>>

codecVars == <<record_type, amount_field, deserialized, formatted, codecPc>>

\* What the steps of the pipeline after the open leave alone.
formatVars == <<values, texts>>

aroundPipe == <<ledgerVars, opened, exit_code, readerVars, codecVars, formatVars>>

vars == <<ledgerVars, pipeVars, readerVars, codecVars, formatVars>>

----------------------------------------------------------------------------
(* Bounds *)

MaxRows == 3
MaxChunk == 2
MaxClient == 1

\* Fields of a row: type, client, tx, amount (struct Operation).
OperationArity == 4

MaxOps == 5
MaxTx == 2
MaxAmount == 2
\* Bytes of a stream, capacity of the BufReader, num_lines of a call, calls of
\* read_num_lines on one reader, Interrupted results of fill_buf.
MaxStream == 4
MaxCapacity == 2
MaxLines == 2
MaxCalls == 3
MaxInterrupts == 1

\* Characters of an amount field, and of its part before the first '.'.
MaxLen == 7
MaxIntDigits == 2

\* Largest integer part of the amounts written by serialize_fractional.
MaxIntegerPart == 1

Clients == 0..MaxClient
TxIds == 1..MaxTx
Amounts == 0..MaxAmount

----------------------------------------------------------------------------
(* operation.rs: Operation, OperationType *)

OperationType == {"Deposit", "Withdrawal", "Dispute", "Resolve", "Chargeback"}

Operation(type_, client, tx_id, amount) ==
    [type_ |-> type_, client |-> client, tx_id |-> tx_id, amount |-> amount]

deposit(client, tx_id, amount) == Operation("Deposit", client, tx_id, amount)
withdrawal(client, tx_id, amount) == Operation("Withdrawal", client, tx_id, amount)
dispute(client, tx_id) == Operation("Dispute", client, tx_id, 0)
resolve(client, tx_id) == Operation("Resolve", client, tx_id, 0)
chargeback(client, tx_id) == Operation("Chargeback", client, tx_id, 0)

\* Every operation over the given clients, tx ids and amounts.
OpsOver(clients, txs, amounts) ==
    {deposit(c, t, a) : c \in clients, t \in txs, a \in amounts}
    \cup {withdrawal(c, t, a) : c \in clients, t \in txs, a \in amounts}
    \cup {dispute(c, t) : c \in clients, t \in txs}
    \cup {resolve(c, t) : c \in clients, t \in txs}
    \cup {chargeback(c, t) : c \in clients, t \in txs}

NoOp == [type_ |-> "None", client |-> 0, tx_id |-> 0, amount |-> 0]

----------------------------------------------------------------------------
(* client_state.rs: ClientState and apply_operation *)

Transaction(operation, status) == [operation |-> operation, status |-> status]

EmptyMap == [t \in {} |-> 0]

\* HashMap::insert: adds the key or overwrites the value stored under it.
MapInsert(m, k, v) == [t \in (DOMAIN m) \cup {k} |-> IF t = k THEN v ELSE m[t]]

New(client) ==
    [client |-> client, available |-> 0, held |-> 0, status |-> "Normal",
     transactions |-> EmptyMap]

HasTx(self, tx_id) == tx_id \in DOMAIN self.transactions

SetTxStatus(self, tx_id, status) ==
    [self.transactions EXCEPT ![tx_id].status = status]

ApplyDeposit(self, operation) ==
    [self EXCEPT
        !.available = @ + operation.amount,
        !.transactions = MapInsert(@, operation.tx_id, Transaction(operation, "Normal"))]

\* Variant: held funds count towards what can be withdrawn.
ApplyWithdrawalFromTotal(self, operation) ==
    IF self.available + self.held >= operation.amount
    THEN [self EXCEPT !.available = @ - operation.amount]
    ELSE self

ApplyWithdrawal(self, operation) ==
    IF self.available >= operation.amount
    THEN [self EXCEPT !.available = @ - operation.amount]
    ELSE self

\* Variant: the transaction's status is not looked at.
ApplyDisputeUnchecked(self, operation) ==
    IF HasTx(self, operation.tx_id)
    THEN LET tx == self.transactions[operation.tx_id] IN
         [self EXCEPT
            !.available = @ - tx.operation.amount,
            !.held = @ + tx.operation.amount,
            !.transactions = SetTxStatus(self, operation.tx_id, "Disputed")]
    ELSE self

ApplyDispute(self, operation) ==
    IF HasTx(self, operation.tx_id)
       /\ self.transactions[operation.tx_id].status # "Disputed"
    THEN LET tx == self.transactions[operation.tx_id] IN
         [self EXCEPT
            !.available = @ - tx.operation.amount,
            !.held = @ + tx.operation.amount,
            !.transactions = SetTxStatus(self, operation.tx_id, "Disputed")]
    ELSE self

\* Variant: the held amount is not released.
ApplyResolveKeepsHeld(self, operation) ==
    IF HasTx(self, operation.tx_id)
       /\ self.transactions[operation.tx_id].status = "Disputed"
    THEN LET tx == self.transactions[operation.tx_id] IN
         [self EXCEPT
            !.available = @ + tx.operation.amount,
            !.transactions = SetTxStatus(self, operation.tx_id, "Normal")]
    ELSE self

\* Variant: the amount of the resolve row is used, not the transaction's.
ApplyResolveRowAmount(self, operation) ==
    IF HasTx(self, operation.tx_id)
       /\ self.transactions[operation.tx_id].status = "Disputed"
    THEN [self EXCEPT
            !.available = @ + operation.amount,
            !.held = @ - operation.amount,
            !.transactions = SetTxStatus(self, operation.tx_id, "Normal")]
    ELSE self

\* Variant: the status of the transaction is not looked at.
ApplyResolveAnyStatus(self, operation) ==
    IF HasTx(self, operation.tx_id)
    THEN LET tx == self.transactions[operation.tx_id] IN
         [self EXCEPT
            !.available = @ + tx.operation.amount,
            !.held = @ - tx.operation.amount,
            !.transactions = SetTxStatus(self, operation.tx_id, "Normal")]
    ELSE self

ApplyResolve(self, operation) ==
    IF HasTx(self, operation.tx_id)
       /\ self.transactions[operation.tx_id].status = "Disputed"
    THEN LET tx == self.transactions[operation.tx_id] IN
         [self EXCEPT
            !.available = @ + tx.operation.amount,
            !.held = @ - tx.operation.amount,
            !.transactions = SetTxStatus(self, operation.tx_id, "Normal")]
    ELSE self

\* Variant: a chargeback of an unknown transaction freezes the account.
ApplyChargebackUnknownFreezes(self, operation) ==
    IF HasTx(self, operation.tx_id)
    THEN IF self.transactions[operation.tx_id].status = "Disputed"
         THEN LET tx == self.transactions[operation.tx_id] IN
              [self EXCEPT
                 !.held = @ - tx.operation.amount,
                 !.status = "Frozen",
                 !.transactions = SetTxStatus(self, operation.tx_id, "Normal")]
         ELSE self
    ELSE [self EXCEPT !.status = "Frozen"]

\* Variant: the amount is taken from available as well.
ApplyChargebackTakesAvailable(self, operation) ==
    IF HasTx(self, operation.tx_id)
       /\ self.transactions[operation.tx_id].status = "Disputed"
    THEN LET tx == self.transactions[operation.tx_id] IN
         [self EXCEPT
            !.available = @ - tx.operation.amount,
            !.held = @ - tx.operation.amount,
            !.status = "Frozen",
            !.transactions = SetTxStatus(self, operation.tx_id, "Normal")]
    ELSE self

\* Variant: a chargeback of a retained transaction that is not Disputed
\* freezes the account.
ApplyChargebackAnyStatus(self, operation) ==
    IF HasTx(self, operation.tx_id)
    THEN IF self.transactions[operation.tx_id].status = "Disputed"
         THEN LET tx == self.transactions[operation.tx_id] IN
              [self EXCEPT
                 !.held = @ - tx.operation.amount,
                 !.status = "Frozen",
                 !.transactions = SetTxStatus(self, operation.tx_id, "Normal")]
         ELSE [self EXCEPT !.status = "Frozen"]
    ELSE self

ApplyChargeback(self, operation) ==
    IF HasTx(self, operation.tx_id)
       /\ self.transactions[operation.tx_id].status = "Disputed"
    THEN LET tx == self.transactions[operation.tx_id] IN
         [self EXCEPT
            !.held = @ - tx.operation.amount,
            !.status = "Frozen",
            !.transactions = SetTxStatus(self, operation.tx_id, "Normal")]
    ELSE self

\* Variant: the Frozen status is not looked at.
ApplyOperationIgnoringFrozen(self, operation) ==
    CASE operation.type_ = "Deposit" -> ApplyDeposit(self, operation)
      [] operation.type_ = "Withdrawal" -> ApplyWithdrawal(self, operation)
      [] operation.type_ = "Dispute" -> ApplyDispute(self, operation)
      [] operation.type_ = "Resolve" -> ApplyResolve(self, operation)
      [] operation.type_ = "Chargeback" -> ApplyChargeback(self, operation)

ApplyOperation(self, operation) ==
    IF self.status = "Frozen" THEN self
    ELSE CASE operation.type_ = "Deposit" -> ApplyDeposit(self, operation)
           [] operation.type_ = "Withdrawal" -> ApplyWithdrawal(self, operation)
           [] operation.type_ = "Dispute" -> ApplyDispute(self, operation)
           [] operation.type_ = "Resolve" -> ApplyResolve(self, operation)
           [] operation.type_ = "Chargeback" -> ApplyChargeback(self, operation)

\* impl From<ClientState> for ClientStateCsv
ToCsv(state) ==
    [client |-> state.client,
     locked |-> (state.status = "Frozen"),
     available |-> state.available,
     held |-> state.held,
     total |-> state.available + state.held]

----------------------------------------------------------------------------
(* State of the ledger under test after ClientState::new *)

LedgerClient == 0

LedgerOps == OpsOver({LedgerClient}, TxIds, Amounts)

NoSnapshot == [age |-> 0, tx_id |-> 0, state |-> New(LedgerClient)]

LedgerStart ==
    /\ cs = New(LedgerClient)
    /\ pre = New(LedgerClient)
    /\ last = NoOp
    /\ beforeDispute = NoSnapshot
    /\ nops = 0
    /\ deposited = 0
    /\ withdrawn = 0
    /\ chargedBack = 0
    /\ wids = {}

----------------------------------------------------------------------------
(* lib.rs: the batch pipeline *)

\* A row of the input: its number of fields and the Operation it deserializes
\* to (NoOp when deserialization fails).
Row(arity, op) == [arity |-> arity, op |-> op]

\* Rows of the pipeline runs: the five operation types for every client, a row
\* of four fields with an amount that does not parse, and a row of three fields.
RowOps == OpsOver(Clients, {1}, {1})
BadAmountRow == Row(OperationArity, NoOp)
ShortRow == Row(OperationArity - 1, NoOp)
Rows == {Row(OperationArity, o) : o \in RowOps} \cup {BadAmountRow, ShortRow}

Min(a, b) == IF a < b THEN a ELSE b

IsPrefix(s, t) == Len(s) <= Len(t) /\ SubSeq(t, 1, Len(s)) = s

MapRemove(m, k) == [t \in (DOMAIN m) \ {k} |-> m[t]]

\* read_num_lines on the rows not yet consumed: the next num_lines rows, or
\* the rows that remain when the stream ends before that.
ReadNumLines(rows, consumed, n) ==
    SubSeq(rows, consumed + 1, Min(consumed + n, Len(rows)))

\* The loop of parse_csv from record i on. The reader is built per chunk with
\* has_headers(false) and is not flexible: the first record fixes the number
\* of fields (expected, 0 before the first record) and read_byte_record
\* returns Err for a later record with another number of fields, which is
\* logged and skipped like a record that fails to deserialize.
RECURSIVE ParseRecords(_, _, _, _, _)
ParseRecords(data, i, chunk, expected, operations) ==
    IF i > chunk \/ i > Len(data) THEN operations
    ELSE LET record == data[i]
             fields == IF expected = 0 THEN record.arity ELSE expected
         IN  IF record.arity # fields
             THEN ParseRecords(data, i + 1, chunk, fields, operations)
             ELSE IF record.op # NoOp
             THEN ParseRecords(data, i + 1, chunk, fields, Append(operations, record.op))
             ELSE ParseRecords(data, i + 1, chunk, fields, operations)

ParseCsv(data, chunk) == ParseRecords(data, 1, chunk, 0, << >>)

ClientOps(operations, client) ==
    SelectSeq(operations, LAMBDA o : o.client = client)

\* split_into_client_operations: per client, its operations in batch order.
SplitIntoClientOperations(operations) ==
    [c \in {operations[i].client : i \in DOMAIN operations} |-> ClientOps(operations, c)]

Main == -1
NoState == [client |-> -1]

TaskIds == DOMAIN tasks
WorkerIds == DOMAIN workers

PipeStart(rows, chunk) ==
    /\ input = rows
    /\ chunk_size = chunk
    /\ pos = 0
    /\ mainPc = "open"
    /\ last_task_handle = 0
    /\ tasks = << >>
    /\ lock = 0
    /\ client_work = EmptyMap
    /\ workers = << >>
    /\ drainCur = 0
    /\ applied = [c \in Clients |-> << >>]
    /\ final = EmptyMap
    /\ report = << >>
    /\ opened = FALSE
    /\ exit_code = << >>

RECURSIVE SeqsUpTo(_, _)
SeqsUpTo(S, n) ==
    IF n = 0 THEN {<< >>}
    ELSE LET shorter == SeqsUpTo(S, n - 1) IN
         shorter \cup {Append(s, x) : s \in {t \in shorter : Len(t) = n - 1}, x \in S}

----------------------------------------------------------------------------
(* operation.rs: deserialize_amount, serialize_fractional.rs *)

Ok(v) == [ok |-> TRUE, value |-> v]
Err == [ok |-> FALSE, value |-> 0]

Digits == <<"0", "1", "2", "3", "4", "5", "6", "7", "8", "9">>
DigitChars == {Digits[i] : i \in DOMAIN Digits}
DigitValue(c) == (CHOOSE i \in DOMAIN Digits : Digits[i] = c) - 1

\* The characters of the amount fields.
AmountChars == {"0", "1", "9", "."}

IsNumber(str) == Len(str) >= 1 /\ \A i \in DOMAIN str : str[i] \in DigitChars

RECURSIVE DecimalNumber(_)
DecimalNumber(str) ==
    IF str = << >> THEN 0
    ELSE DecimalNumber(SubSeq(str, 1, Len(str) - 1)) * 10 + DigitValue(str[Len(str)])

\* 10000: four fractional digits.
Scale == 10000
U16Max == 65535

\* str::parse::<u32>: a non-empty string of digits (the amount fields here
\* have at most MaxIntDigits + 1 characters before the first '.', far below
\* the range of u32).
ParseU32(str) == IF IsNumber(str) THEN Ok(DecimalNumber(str)) ELSE Err

\* str::parse::<u16>: a non-empty string of digits with a value up to 65535.
ParseU16(str) ==
    IF IsNumber(str) /\ DecimalNumber(str) <= U16Max
    THEN Ok(DecimalNumber(str)) ELSE Err

\* s.split('.'): the parts between the dots, at least one.
RECURSIVE Split(_)
Split(str) ==
    IF \E j \in DOMAIN str : str[j] = "."
    THEN LET j == CHOOSE j \in DOMAIN str :
                      str[j] = "." /\ \A k \in 1..(j - 1) : str[k] # "."
         IN <<SubSeq(str, 1, j - 1)>> \o Split(SubSeq(str, j + 1, Len(str)))
    ELSE <<str>>

\* format!("{:0<4}", fractional): zeros appended up to a width of four.
PadRight(str) ==
    IF Len(str) >= 4 THEN str ELSE str \o [i \in 1..(4 - Len(str)) |-> "0"]

DeserializeAmount(str) ==
    LET parts == Split(str)
        integer_part == ParseU32(parts[1])
    IN  IF ~integer_part.ok THEN Err
        ELSE IF Len(parts) >= 2
             THEN LET fractional_part == ParseU16(PadRight(parts[2]))
                  IN  IF ~fractional_part.ok THEN Err
                      ELSE Ok(integer_part.value * Scale + fractional_part.value)
             ELSE Ok(integer_part.value * Scale)

\* Deserializing a record into Operation: the fields are taken by position, a
\* record without a fourth field has no amount to give to deserialize_amount
\* and fails; the type has no part in how the amount is deserialized.
DeserializeOperation(type, field) ==
    IF field = << >> THEN Err
    ELSE LET amount == DeserializeAmount(field[1])
         IN  IF amount.ok THEN Ok(Operation(type, 0, 1, amount.value)) ELSE Err

\* i64 division and remainder of Rust: towards zero, the remainder has the
\* sign of the dividend.
Quot(a, b) == IF a >= 0 THEN a \div b ELSE -((-a) \div b)
Rem(a, b) == a - b * Quot(a, b)
Abs(a) == IF a >= 0 THEN a ELSE -a

\* format!("{}", n) of an integer.
RECURSIVE NatToString(_)
NatToString(n) ==
    IF n < 10 THEN <<Digits[n + 1]>>
    ELSE NatToString(n \div 10) \o <<Digits[(n % 10) + 1]>>
IntToString(n) == IF n >= 0 THEN NatToString(n) ELSE <<"-">> \o NatToString(-n)

\* format!("{}.{}", integer_part, fractional_part)
SerializeFractional(value) ==
    LET integer_part == Quot(value, Scale)
        fractional_part == Abs(Rem(value, Scale))
    IN  IntToString(integer_part) \o <<".">> \o IntToString(fractional_part)

\* The amount fields: every string of up to MaxLen characters with at most
\* MaxIntDigits before the first '.'.
AmountFields ==
    {str \in SeqsUpTo(AmountChars, MaxLen) : Len(Split(str)[1]) <= MaxIntDigits}

ReaderStart(bytes, cap) ==
    /\ stream = bytes
    /\ capacity = cap
    /\ rpos = 0
    /\ filled = 0
    /\ num_lines = 1
    /\ buf = << >>
    /\ read = 0
    /\ iteration = 0
    /\ used = 0
    /\ readerPc = "idle"
    /\ ret = << >>
    /\ start = 0
    /\ out = << >>
    /\ ncalls = 0
    /\ interrupts = 0

\* The amounts written: both signs, integer parts up to MaxIntegerPart,
\* fractional parts of one to four digits.
Fractions == {0, 1, 10, 100, 1000, 5000, 9999}
FormatAmounts ==
    {sign * (i * Scale + f) : sign \in {-1, 1}, i \in 0..MaxIntegerPart, f \in Fractions}

FormatStart(a, b) ==
    /\ values = <<a, b>>
    /\ texts = << >>

CodecStart(type, field) ==
    /\ record_type = type
    /\ amount_field = field
    /\ deserialized = << >>
    /\ formatted = << >>
    /\ codecPc = "start"

\* trimmed.deserialize(None) on the row.
Deserialize ==
    /\ codecPc = "start"
    /\ deserialized' = <<DeserializeOperation(record_type, amount_field)>>
    /\ codecPc' = "decoded"
    /\ UNCHANGED <<record_type, amount_field, formatted>>
    /\ UNCHANGED <<ledgerVars, pipeVars, readerVars, formatVars>>

\* The amount of the deserialized Operation is written with serialize_fractional.
Serialize ==
    /\ codecPc = "decoded"
    /\ deserialized[1].ok
    /\ formatted' = <<SerializeFractional(deserialized[1].value.amount)>>
    /\ codecPc' = "formatted"
    /\ UNCHANGED <<record_type, amount_field, deserialized>>
    /\ UNCHANGED <<ledgerVars, pipeVars, readerVars, formatVars>>

CodecNext ==
    \/ Deserialize
    \/ Serialize

CodecInit ==
    /\ LedgerStart
    /\ PipeStart(<< >>, 1)
    /\ ReaderStart(<< >>, 1)
    /\ FormatStart(0, 0)
    /\ \E type \in OperationType, field \in {<<str>> : str \in AmountFields} \cup {<< >>} :
        CodecStart(type, field)

SpecCodec == CodecInit /\ [][CodecNext]_vars

\* The next of the two amounts is written with serialize_fractional.
FormatNext ==
    /\ Len(texts) < Len(values)
    /\ texts' = Append(texts, SerializeFractional(values[Len(texts) + 1]))
    /\ UNCHANGED values
    /\ UNCHANGED <<ledgerVars, pipeVars, readerVars, codecVars>>

FormatInit ==
    /\ LedgerStart
    /\ PipeStart(<< >>, 1)
    /\ ReaderStart(<< >>, 1)
    /\ CodecStart("Deposit", << >>)
    /\ \E a \in FormatAmounts, b \in FormatAmounts : FormatStart(a, b)

SpecFormat == FormatInit /\ [][FormatNext]_vars

----------------------------------------------------------------------------
(* read_num_lines.rs *)

\* b'\n', and the bytes of the streams: the newline and one other byte.
Newline == 10
Bytes == {Newline, 120}

\* memchr::memchr: the 0-based index of the first needle in haystack, NotFound
\* for None.
NotFound == -1
Memchr(needle, haystack) ==
    IF \E j \in 1..Len(haystack) : haystack[j] = needle
    THEN (CHOOSE j \in 1..Len(haystack) :
              /\ haystack[j] = needle
              /\ \A k \in 1..(j - 1) : haystack[k] # needle) - 1
    ELSE NotFound

\* Variant: the newline is copied into buf but not counted.
NewUsedWithoutNewline(i) == i

\* new_used of the Some(i) arm: the line and its newline.
NewUsed(i) == i + 1

\* Variant: the call returns at the first line it has found.
EnoughLinesAtFirst(n, wanted) == n >= 1

\* if iteration == num_lines
EnoughLines(n, wanted) == n = wanted

\* The slice fill_buf returns: the bytes held in the internal buffer.
Available == SubSeq(stream, rpos + 1, rpos + filled)

\* BufReader::consume moves the position by amt, at most to the end of the
\* bytes held.
Consume(amt) ==
    /\ rpos' = rpos + Min(amt, filled)
    /\ filled' = filled - Min(amt, filled)

\* A call of read_num_lines with a fresh buf: read = 0, iteration = 0.
ReadNumLinesCall ==
    /\ readerPc = "idle"
    /\ ncalls < MaxCalls
    /\ \E n \in 1..MaxLines : num_lines' = n
    /\ buf' = << >>
    /\ read' = 0
    /\ iteration' = 0
    /\ used' = 0
    /\ ret' = << >>
    /\ start' = rpos
    /\ ncalls' = ncalls + 1
    /\ readerPc' = "fill"
    /\ UNCHANGED <<stream, capacity, rpos, filled, out, interrupts>>
    /\ UNCHANGED <<ledgerVars, pipeVars, codecVars, formatVars>>

\* r.fill_buf() returns Err of kind Interrupted: continue.
FillBufInterrupted ==
    /\ readerPc = "fill"
    /\ interrupts < MaxInterrupts
    /\ interrupts' = interrupts + 1
    /\ UNCHANGED <<stream, capacity, rpos, filled, num_lines, buf, read, iteration, used,
                   readerPc, ret, start, out, ncalls>>
    /\ UNCHANGED <<ledgerVars, pipeVars, codecVars, formatVars>>

\* r.fill_buf() returns Ok: when the internal buffer is empty the BufReader
\* reads from the underlying reader, which gives between one byte and the
\* capacity, or nothing at the end of the stream. An empty slice ends the
\* call with Ok(read); otherwise the inner loop starts with used = 0.
FillBuf ==
    /\ readerPc = "fill"
    /\ \E n \in 0..capacity :
        /\ IF filled > 0 THEN n = filled
           ELSE IF rpos = Len(stream) THEN n = 0
           ELSE n >= 1 /\ n <= Len(stream) - rpos
        /\ filled' = n
        /\ IF n = 0
           THEN /\ ret' = <<read>>
                /\ readerPc' = "idle"
           ELSE /\ ret' = ret
                /\ readerPc' = "scan"
    /\ used' = 0
    /\ UNCHANGED <<stream, capacity, rpos, num_lines, buf, read, iteration, start, out,
                   ncalls, interrupts>>
    /\ UNCHANGED <<ledgerVars, pipeVars, codecVars, formatVars>>

\* One turn of the inner loop: copy up to and including the next newline of
\* the slice, or the rest of the slice; count it; then either go on in the
\* slice, or consume and fetch more, or consume and return Ok(read).
Scan ==
    /\ readerPc = "scan"
    /\ LET available == Available
           rest == SubSeq(available, used + 1, Len(available))
           i == Memchr(Newline, rest)
           done == i # NotFound
           copied == IF done THEN SubSeq(available, used + 1, used + i + 1) ELSE rest
           new_used == IF done THEN NewUsed(i) ELSE Len(available) - used
       IN
       /\ buf' = buf \o copied
       /\ out' = out \o copied
       /\ read' = read + new_used
       /\ used' = used + new_used
       /\ IF ~done
          THEN /\ Consume(used + new_used)
               /\ readerPc' = "fill"
               /\ UNCHANGED <<iteration, ret>>
          ELSE /\ iteration' = iteration + 1
               /\ IF EnoughLines(iteration + 1, num_lines)
                  THEN /\ Consume(used + new_used)
                       /\ ret' = <<read + new_used>>
                       /\ readerPc' = "idle"
                  ELSE UNCHANGED <<rpos, filled, ret, readerPc>>
    /\ UNCHANGED <<stream, capacity, num_lines, start, ncalls, interrupts>>
    /\ UNCHANGED <<ledgerVars, pipeVars, codecVars, formatVars>>

ReaderNext ==
    \/ ReadNumLinesCall
    \/ FillBufInterrupted
    \/ FillBuf
    \/ Scan

ReaderInit ==
    /\ LedgerStart
    /\ PipeStart(<< >>, 1)
    /\ CodecStart("Deposit", << >>)
    /\ FormatStart(0, 0)
    /\ \E bytes \in SeqsUpTo(Bytes, MaxStream), cap \in 1..MaxCapacity : ReaderStart(bytes, cap)

SpecReader == ReaderInit /\ [][ReaderNext]_vars

----------------------------------------------------------------------------
Init ==
    /\ LedgerStart
    /\ ReaderStart(<< >>, 1)
    /\ CodecStart("Deposit", << >>)
    /\ FormatStart(0, 0)
    /\ \E rows \in SeqsUpTo(Rows, MaxRows), chunk \in 1..MaxChunk : PipeStart(rows, chunk)

(* read_file_and_output_to_writer *)

\* File::open(filename)?: on Err the function returns it at once.
MainOpen ==
    /\ mainPc = "open"
    /\ \E ok \in BOOLEAN :
        /\ opened' = ok
        /\ mainPc' = IF ok THEN "read" ELSE "open_failed"
    /\ UNCHANGED <<input, chunk_size, pos, last_task_handle, tasks, lock, client_work,
                   workers, drainCur, applied, final, report, exit_code>>
    /\ UNCHANGED <<ledgerVars, readerVars, codecVars, formatVars>>

\* One turn of the reader loop: read a chunk, stop at end of input, otherwise
\* spawn parse_and_compute for it, chained to the previous dispatch task.
MainRead ==
    /\ mainPc = "read"
    /\ LET data == ReadNumLines(input, pos, chunk_size) IN
       IF Len(data) = 0
       THEN /\ mainPc' = "await_last"
            /\ UNCHANGED <<pos, tasks, last_task_handle>>
       ELSE /\ pos' = pos + Len(data)
            /\ tasks' = Append(tasks, [data |-> data, pc |-> "parse", operations |-> << >>,
                                       last_handle |-> last_task_handle,
                                       client_operations |-> EmptyMap])
            /\ last_task_handle' = Len(tasks) + 1
            /\ UNCHANGED mainPc
    /\ UNCHANGED <<input, chunk_size, lock, client_work, workers, drainCur, applied,
                   final, report>>
    /\ UNCHANGED aroundPipe

MainAwaitLast ==
    /\ mainPc = "await_last"
    /\ last_task_handle # 0 => tasks[last_task_handle].pc = "done"
    /\ mainPc' = "lock"
    /\ last_task_handle' = 0
    /\ UNCHANGED <<input, chunk_size, pos, tasks, lock, client_work, workers, drainCur,
                   applied, final, report>>
    /\ UNCHANGED aroundPipe

MainLock ==
    /\ mainPc = "lock"
    /\ lock = 0
    /\ lock' = Main
    /\ mainPc' = "drain"
    /\ UNCHANGED <<input, chunk_size, pos, last_task_handle, tasks, client_work, workers,
                   drainCur, applied, final, report>>
    /\ UNCHANGED aroundPipe

(* ClientHandles::serialize_work *)

\* client_work.drain() yields the next entry, in no particular order.
DrainNext(client) ==
    /\ mainPc = "drain"
    /\ drainCur = 0
    /\ client \in DOMAIN client_work
    /\ drainCur' = client_work[client]
    /\ client_work' = MapRemove(client_work, client)
    /\ UNCHANGED <<input, chunk_size, pos, mainPc, last_task_handle, tasks, lock, workers,
                   applied, final, report>>
    /\ UNCHANGED aroundPipe

\* work.1.await: the worker's ClientState becomes a row of the report.
DrainAwait ==
    /\ mainPc = "drain"
    /\ drainCur # 0
    /\ workers[drainCur].pc = "done"
    /\ LET result == workers[drainCur].state IN
       /\ final' = MapInsert(final, result.client, result)
       /\ report' = Append(report, ToCsv(result))
    /\ workers' = [workers EXCEPT ![drainCur].pc = "taken", ![drainCur].state = NoState]
    /\ drainCur' = 0
    /\ UNCHANGED <<input, chunk_size, pos, mainPc, last_task_handle, tasks, lock,
                   client_work, applied>>
    /\ UNCHANGED aroundPipe

\* Variant: the drain stops after the handle it is at, whatever the map holds.
MainFinishEarly ==
    /\ mainPc = "drain"
    /\ drainCur = 0
    /\ mainPc' = "done"
    /\ lock' = 0
    /\ UNCHANGED <<input, chunk_size, pos, last_task_handle, tasks, client_work, workers,
                   drainCur, applied, final, report>>
    /\ UNCHANGED aroundPipe

MainFinish ==
    /\ mainPc = "drain"
    /\ drainCur = 0
    /\ DOMAIN client_work = {}
    /\ mainPc' = "done"
    /\ lock' = 0
    /\ UNCHANGED <<input, chunk_size, pos, last_task_handle, tasks, client_work, workers,
                   drainCur, applied, final, report>>
    /\ UNCHANGED aroundPipe

(* parse_and_compute, perform_work, spawn_for_each_client *)

TaskParse(k) ==
    /\ tasks[k].pc = "parse"
    /\ tasks' = [tasks EXCEPT ![k].operations = ParseCsv(tasks[k].data, chunk_size),
                              ![k].data = << >>,
                              ![k].pc = "await"]
    /\ UNCHANGED <<input, chunk_size, pos, mainPc, last_task_handle, lock, client_work,
                   workers, drainCur, applied, final, report>>
    /\ UNCHANGED aroundPipe

\* Variant: the dispatch does not wait for the dispatch of the batch before.
PriorDispatchIgnored(k) == TRUE

\* Variant: the dispatch waits only until the batch before has been parsed.
PriorDispatchParsed(k) ==
    tasks[k].last_handle # 0 => tasks[tasks[k].last_handle].pc # "parse"

\* prio_task.await has a result: there is no prior task or it has returned.
PriorDispatchDone(k) ==
    tasks[k].last_handle # 0 => tasks[tasks[k].last_handle].pc = "done"

TaskAwaitPrior(k) ==
    /\ tasks[k].pc = "await"
    /\ PriorDispatchDone(k)
    /\ tasks' = [tasks EXCEPT
                    ![k].client_operations = SplitIntoClientOperations(tasks[k].operations),
                    ![k].operations = << >>,
                    ![k].pc = "lock"]
    /\ UNCHANGED <<input, chunk_size, pos, mainPc, last_task_handle, lock, client_work,
                   workers, drainCur, applied, final, report>>
    /\ UNCHANGED aroundPipe

TaskLock(k) ==
    /\ tasks[k].pc = "lock"
    /\ lock = 0
    /\ lock' = k
    /\ tasks' = [tasks EXCEPT ![k].pc = "spawn"]
    /\ UNCHANGED <<input, chunk_size, pos, mainPc, last_task_handle, client_work, workers,
                   drainCur, applied, final, report>>
    /\ UNCHANGED aroundPipe

\* One turn of the loop over client_operations.drain(): take the client's
\* prior handle out of the map, spawn the worker, insert its handle.
TaskSpawn(k, client) ==
    /\ tasks[k].pc = "spawn"
    /\ client \in DOMAIN tasks[k].client_operations
    /\ LET prior_work == IF client \in DOMAIN client_work THEN client_work[client] ELSE 0
           future == Len(workers) + 1
       IN  /\ workers' = Append(workers, [client |-> client, prior_work |-> prior_work,
                                          operations |-> tasks[k].client_operations[client],
                                          pc |-> "start", state |-> NoState])
           /\ client_work' = MapInsert(client_work, client, future)
    /\ tasks' = [tasks EXCEPT ![k].client_operations = MapRemove(@, client)]
    /\ UNCHANGED <<input, chunk_size, pos, mainPc, last_task_handle, lock, drainCur,
                   applied, final, report>>
    /\ UNCHANGED aroundPipe

\* Variant: the task returns and the guard on the map is never dropped.
TaskDoneKeepsLock(k) ==
    /\ tasks[k].pc = "spawn"
    /\ DOMAIN tasks[k].client_operations = {}
    /\ tasks' = [tasks EXCEPT ![k].pc = "done"]
    /\ UNCHANGED <<input, chunk_size, pos, mainPc, last_task_handle, lock, client_work,
                   workers, drainCur, applied, final, report>>
    /\ UNCHANGED aroundPipe

\* The loop is over: the guard on the map is dropped and the task returns.
TaskDone(k) ==
    /\ tasks[k].pc = "spawn"
    /\ DOMAIN tasks[k].client_operations = {}
    /\ lock' = 0
    /\ tasks' = [tasks EXCEPT ![k].pc = "done"]
    /\ UNCHANGED <<input, chunk_size, pos, mainPc, last_task_handle, client_work, workers,
                   drainCur, applied, final, report>>
    /\ UNCHANGED aroundPipe

(* the task spawned per client in spawn_for_each_client *)

\* Variant: the worker starts from a new ClientState whatever came before.
InitialStateFresh(w) == New(workers[w].client)

\* The ClientState the worker starts from: the result of the prior worker, or
\* a new one for the first batch of the client.
InitialState(w) ==
    IF workers[w].prior_work # 0
    THEN workers[workers[w].prior_work].state
    ELSE New(workers[w].client)

\* Variant: the worker does not wait for the prior worker to return; it
\* starts from the state the prior worker has at that moment.
WorkerStartEarly(w) ==
    /\ workers[w].pc = "start"
    /\ workers[w].prior_work # 0 => workers[workers[w].prior_work].pc \in {"run", "done"}
    /\ LET p == workers[w].prior_work
           started == [workers EXCEPT ![w].state = InitialState(w), ![w].pc = "run"]
       IN  workers' = IF p # 0 /\ workers[p].pc = "done"
                      THEN [started EXCEPT ![p].pc = "taken", ![p].state = NoState]
                      ELSE started
    /\ UNCHANGED <<input, chunk_size, pos, mainPc, last_task_handle, tasks, lock,
                   client_work, drainCur, applied, final, report>>
    /\ UNCHANGED aroundPipe

\* work.await, then the worker owns client_state: it starts when the prior
\* worker of the client has returned, and takes its result.
WorkerStart(w) ==
    /\ workers[w].pc = "start"
    /\ workers[w].prior_work # 0 => workers[workers[w].prior_work].pc = "done"
    /\ LET p == workers[w].prior_work
           started == [workers EXCEPT ![w].state = InitialState(w), ![w].pc = "run"]
       IN  workers' = IF p # 0
                      THEN [started EXCEPT ![p].pc = "taken", ![p].state = NoState]
                      ELSE started
    /\ UNCHANGED <<input, chunk_size, pos, mainPc, last_task_handle, tasks, lock,
                   client_work, drainCur, applied, final, report>>
    /\ UNCHANGED aroundPipe

\* One turn of operations.drain(..).for_each; the task returns client_state
\* after the last one.
WorkerApply(w) ==
    /\ workers[w].pc = "run"
    /\ LET operation == Head(workers[w].operations)
           rest == Tail(workers[w].operations)
       IN  /\ workers' = [workers EXCEPT
                            ![w].state = ApplyOperation(@, operation),
                            ![w].operations = rest,
                            ![w].pc = IF rest = << >> THEN "done" ELSE "run"]
           /\ applied' = [applied EXCEPT ![workers[w].client] = Append(@, operation)]
    /\ UNCHANGED <<input, chunk_size, pos, mainPc, last_task_handle, tasks, lock,
                   client_work, drainCur, final, report>>
    /\ UNCHANGED aroundPipe

(* main.rs *)

\* The exit status of main: an Err of read_file_and_output_to_writer is
\* printed, and main returns Ok(()) in either case.
ExitStatus(failed) == IF failed THEN 0 ELSE 0

MainExit ==
    /\ mainPc \in {"done", "open_failed"}
    /\ exit_code' = <<ExitStatus(mainPc = "open_failed")>>
    /\ mainPc' = "exited"
    /\ UNCHANGED <<input, chunk_size, pos, last_task_handle, tasks, lock, client_work,
                   workers, drainCur, applied, final, report, opened>>
    /\ UNCHANGED <<ledgerVars, readerVars, codecVars, formatVars>>

Next ==
    \/ MainOpen
    \/ MainExit
    \/ MainRead
    \/ MainAwaitLast
    \/ MainLock
    \/ \E client \in Clients : DrainNext(client)
    \/ DrainAwait
    \/ MainFinish
    \/ \E k \in TaskIds : TaskParse(k)
    \/ \E k \in TaskIds : TaskAwaitPrior(k)
    \/ \E k \in TaskIds : TaskLock(k)
    \/ \E k \in TaskIds, client \in Clients : TaskSpawn(k, client)
    \/ \E k \in TaskIds : TaskDone(k)
    \/ \E w \in WorkerIds : WorkerStart(w)
    \/ \E w \in WorkerIds : WorkerApply(w)

Spec == Init /\ [][Next]_vars

\* The runtime runs every task that can make a step: the pipeline does not
\* stop while a step is possible.
SpecLive == Spec /\ WF_vars(Next)

----------------------------------------------------------------------------
(* The ledger on its own: one client, operations applied one after another *)

\* The transaction an operation names is retained and has the given status.
TxIs(self, tx_id, status) ==
    HasTx(self, tx_id) /\ self.transactions[tx_id].status = status

Apply(operation) ==
    /\ nops < MaxOps
    /\ cs' = ApplyOperation(cs, operation)
    /\ pre' = cs
    /\ last' = operation
    /\ beforeDispute' =
         IF cs.status = "Normal" /\ operation.type_ = "Dispute"
            /\ TxIs(cs, operation.tx_id, "Normal")
         THEN [age |-> 1, tx_id |-> operation.tx_id, state |-> cs]
         ELSE IF beforeDispute.age = 1 THEN [beforeDispute EXCEPT !.age = 2]
         ELSE NoSnapshot
    /\ nops' = nops + 1
    /\ deposited' = IF cs.status = "Normal" /\ operation.type_ = "Deposit"
                    THEN deposited + operation.amount ELSE deposited
    /\ withdrawn' = IF cs.status = "Normal" /\ operation.type_ = "Withdrawal"
                       /\ operation.amount <= cs.available
                    THEN withdrawn + operation.amount ELSE withdrawn
    /\ chargedBack' = IF cs.status = "Normal" /\ operation.type_ = "Chargeback"
                         /\ TxIs(cs, operation.tx_id, "Disputed")
                      THEN chargedBack + cs.transactions[operation.tx_id].operation.amount
                      ELSE chargedBack
    /\ wids' = IF operation.type_ = "Withdrawal" THEN wids \cup {operation.tx_id} ELSE wids
    /\ UNCHANGED <<pipeVars, readerVars, codecVars, formatVars>>

LedgerNext == \E operation \in LedgerOps : Apply(operation)

LedgerInit ==
    /\ LedgerStart
    /\ PipeStart(<< >>, 1)
    /\ ReaderStart(<< >>, 1)
    /\ CodecStart("Deposit", << >>)
    /\ FormatStart(0, 0)

SpecLedger == LedgerInit /\ [][LedgerNext]_vars

----------------------------------------------------------------------------
(* Pipeline claims (Spec) *)

\* The operations parse_csv produces for the whole input when it is cut into
\* chunks of the given number of rows, in input order.
RECURSIVE Decoded(_, _)
Decoded(rows, chunk) ==
    IF rows = << >> THEN << >>
    ELSE LET n == Min(chunk, Len(rows)) IN
         ParseCsv(SubSeq(rows, 1, n), chunk) \o Decoded(SubSeq(rows, n + 1, Len(rows)), chunk)

RECURSIVE FoldOps(_, _)
FoldOps(state, operations) ==
    IF operations = << >> THEN state
    ELSE FoldOps(ApplyOperation(state, Head(operations)), Tail(operations))

\* Per client that has at least one of the operations, the ClientState after
\* applying the client's operations one by one in order.
SequentialStates(operations) ==
    [c \in {operations[i].client : i \in DOMAIN operations} |->
        FoldOps(New(c), ClientOps(operations, c))]

Range(f) == {f[x] : x \in DOMAIN f}

\* C1: Per-client ordering. For every client, every batch size and every
\* interleaving of the reader, the dispatch tasks and the workers, the
\* operations apply_operation is called with for the client are, in order, the
\* decoded operations of the input that name the client: always a prefix of
\* them, and all of them once the run has finished.
C1_PerClientOrder ==
    \A c \in Clients :
        LET decoded == ClientOps(Decoded(input, chunk_size), c) IN
        /\ IsPrefix(applied[c], decoded)
        /\ mainPc = "done" => applied[c] = decoded

\* A finished run in which one client had operations in two batches (two
\* workers chained through the handle map) and another client had some too.
C1_Witness ==
    /\ mainPc = "done"
    /\ \E c \in Clients, d \in Clients :
        /\ c # d
        /\ Cardinality({w \in WorkerIds : workers[w].client = c}) >= 2
        /\ Len(applied[c]) >= 2
        /\ applied[c][1] # applied[c][2]
        /\ Len(applied[d]) >= 1

\* C2: Determinism under scheduling. For a fixed input and batch size, every
\* interleaving ends with the same ClientState per client: the rows of the
\* report are those of the sequential replay of the decoded operations, one
\* row per client, whatever the order of the rows.
C2_DeterministicReport ==
    mainPc = "done" =>
        /\ Range(report) = {ToCsv(st) : st \in Range(SequentialStates(Decoded(input, chunk_size)))}
        /\ Len(report) = Cardinality(Range(report))

\* A finished run of three workers with two report rows, one of a client with
\* held funds.
C2_Witness ==
    /\ mainPc = "done"
    /\ Len(workers) >= 3
    /\ Len(report) = 2
    /\ \E i \in DOMAIN report : report[i].held > 0

\* C3: Batch-size independence. The final state of every client is the one
\* obtained by applying the client's rows one by one in input order (the
\* result for batches of one row), whatever the batch size.
C3_BatchSizeIndependent ==
    mainPc = "done" => final = SequentialStates(Decoded(input, 1))

\* C16: Report completeness. When the run has finished, the report has
\* exactly one row for each client that occurs in a decoded operation, also
\* when all its operations were no-ops, and no row for any other client.
C16_ReportComplete ==
    mainPc = "done" =>
        /\ \A i \in DOMAIN report : report[i].client \in Clients
        /\ \A c \in Clients :
            Cardinality({i \in DOMAIN report : report[i].client = c})
              = IF ClientOps(Decoded(input, chunk_size), c) # << >> THEN 1 ELSE 0

\* A finished run with a row for a client whose operations all were no-ops
\* and no row for a client that no decoded operation names.
C16_Witness ==
    /\ mainPc = "done"
    /\ \E c \in Clients, d \in Clients :
        /\ Len(applied[c]) >= 2
        /\ c \in DOMAIN final
        /\ final[c] = New(c)
        /\ \E i \in DOMAIN report : report[i].client = c
        /\ applied[d] = << >>
        /\ \A i \in DOMAIN report : report[i].client # d

\* The run is over: the reader is at the end of the input, every dispatch
\* task has returned, every worker has finished and its handle was awaited,
\* and the handle map is empty.
Finished ==
    /\ mainPc \in {"done", "exited"}
    /\ opened => pos = Len(input)
    /\ \A k \in TaskIds : tasks[k].pc = "done"
    /\ \A w \in WorkerIds : workers[w].pc = "taken"
    /\ DOMAIN client_work = {}
    /\ drainCur = 0

\* C17: Termination. For every finite input and batch size, under fair
\* scheduling the pipeline eventually finishes; no task waits forever on the
\* lock of the handle map, on the dispatch before it or on the worker before it.
C17_Termination == <>Finished

\* A finished run of at least two batches and three workers.
C17_Witness ==
    /\ Finished
    /\ opened
    /\ Len(tasks) >= 2
    /\ Len(workers) >= 3

\* The operations of the rows that are well-formed on their own, in input order.
RECURSIVE WellFormedOps(_)
WellFormedOps(rows) ==
    IF rows = << >> THEN << >>
    ELSE (IF Head(rows).arity = OperationArity /\ Head(rows).op # NoOp
          THEN <<Head(rows).op>> ELSE << >>) \o WellFormedOps(Tail(rows))

\* C18: Malformed rows are isolated. A row that fails to decode is skipped
\* and every well-formed row before and after it, in the same batch and in
\* later ones, is decoded and applied in input order.
C18_MalformedIsolated ==
    mainPc = "done" =>
        \A c \in Clients : applied[c] = ClientOps(WellFormedOps(input), c)

\* C19: Exit status. The process exits with a non-zero status when the input
\* file cannot be opened and with status 0 when it was opened.
C19_ExitStatus ==
    mainPc = "exited" => (exit_code = <<0>> <=> opened)

\* C20: Serial dispatch chain. The dispatch step of a batch (from taking the
\* lock of the handle map to the return of the task) begins only after the
\* dispatch of every batch before it has returned and released the lock, and
\* at most one dispatch is inside the critical section; the parsing of the
\* batches is not ordered.
C20_SerialDispatch ==
    /\ \A k \in TaskIds :
        tasks[k].pc \in {"lock", "spawn", "done"} =>
            \A j \in 1..(k - 1) : tasks[j].pc = "done"
    /\ \A k \in TaskIds : tasks[k].pc = "spawn" <=> lock = k

\* The second batch is inside its dispatch and meets, for one of its clients,
\* the handle the first batch inserted, while the third batch, parsed before
\* that, waits.
C20_Witness ==
    /\ Len(tasks) >= 3
    /\ tasks[1].pc = "done"
    /\ tasks[2].pc = "spawn"
    /\ lock = 2
    /\ tasks[3].pc = "await"
    /\ \E c \in DOMAIN tasks[2].client_operations : c \in DOMAIN client_work

\* The places that hold the JoinHandle of worker w: the prior_work of a later
\* worker, the handle map, the drain.
HandleHolders(w) ==
    Cardinality({v \in WorkerIds : workers[v].prior_work = w})
    + Cardinality({c \in DOMAIN client_work : client_work[c] = w})
    + (IF drainCur = w THEN 1 ELSE 0)

\* C21: Single ownership of client state. At every moment at most one worker
\* holds the ClientState of a client; a worker applies operations only after
\* the worker before it for the client has returned and given up the state;
\* and the handle of every worker is held in exactly one place (the map, the
\* next worker of the client, or the drain), never in two, and not in the map
\* once it was awaited.
C21_SingleOwnership ==
    /\ \A c \in Clients :
        Cardinality({w \in WorkerIds : workers[w].client = c /\ workers[w].state # NoState}) <= 1
    /\ \A w \in WorkerIds :
        /\ workers[w].pc \in {"run", "done"} =>
            /\ workers[w].state # NoState
            /\ workers[w].prior_work # 0 => workers[workers[w].prior_work].pc = "taken"
        /\ HandleHolders(w) <= 1
        /\ workers[w].pc # "taken" => HandleHolders(w) = 1
        /\ workers[w].pc = "taken" =>
            /\ drainCur # w
            /\ \A c \in DOMAIN client_work : client_work[c] # w

\* The second worker of a client applies operations on the state the first
\* one gave up, while a worker of another client holds that client's state.
C21_Witness ==
    \E u \in WorkerIds, v \in WorkerIds, x \in WorkerIds :
        /\ workers[v].prior_work = u
        /\ workers[u].pc = "taken"
        /\ workers[v].pc = "run"
        /\ applied[workers[v].client] # << >>
        /\ workers[x].client # workers[v].client
        /\ workers[x].state # NoState

----------------------------------------------------------------------------
(* Reader claims, checked under SpecReader *)

\* C11: Reader conservation. Over any sequence of read_num_lines calls on
\* one BufReader, also with Interrupted results of fill_buf in between, the
\* bytes appended to buf are, in order, exactly the bytes consumed from the
\* reader: nothing is dropped or duplicated; and a call returns the number of
\* bytes it appended, which are the bytes it consumed.
C11_ReaderConservation ==
    /\ readerPc \in {"idle", "fill"} => out = SubSeq(stream, 1, rpos)
    /\ readerPc = "scan" => out = SubSeq(stream, 1, rpos + used)
    /\ readerPc = "idle" /\ ret # << >> =>
        /\ buf = SubSeq(stream, start + 1, rpos)
        /\ ret = <<Len(buf)>>

\* The second or a later call has returned at least one byte, the whole
\* stream of three or more bytes is consumed, and a fill_buf was interrupted.
C11_Witness ==
    /\ readerPc = "idle"
    /\ ncalls >= 2
    /\ interrupts >= 1
    /\ start > 0
    /\ ret # << >>
    /\ ret[1] >= 1
    /\ rpos = Len(stream)
    /\ Len(stream) >= 3

\* The positions of the newlines after position from.
NewlinesAfter(bytes, from) == {j \in (from + 1)..Len(bytes) : bytes[j] = Newline}

\* The bytes after position from up to and including the n-th newline, or up
\* to the end when fewer than n newlines remain.
ExpectedChunk(bytes, from, n) ==
    LET nls == NewlinesAfter(bytes, from)
        last_byte == IF Cardinality(nls) >= n
                     THEN CHOOSE j \in nls : Cardinality({k \in nls : k <= j}) = n
                     ELSE Len(bytes)
    IN  SubSeq(bytes, from + 1, last_byte)

\* C12: Reader chunk boundary. For every stream, every num_lines >= 1 and
\* every buffer capacity >= 1, a call appends the bytes from the current
\* position up to and including the num_lines-th newline, or up to the end of
\* the stream when fewer newlines remain, and returns their number; a call at
\* the end of the stream returns 0.
C12_ChunkBoundary ==
    readerPc = "idle" /\ ret # << >> =>
        /\ buf = ExpectedChunk(stream, start, num_lines)
        /\ ret = <<Len(ExpectedChunk(stream, start, num_lines))>>
        /\ start = Len(stream) => ret = <<0>>

\* With a buffer of one byte, a call for two lines has returned three or more
\* bytes ending at a newline, before the end of the stream.
C12_Witness ==
    /\ readerPc = "idle"
    /\ ret # << >>
    /\ capacity = 1
    /\ num_lines = 2
    /\ Len(buf) >= 3
    /\ buf[Len(buf)] = Newline
    /\ rpos < Len(stream)

----------------------------------------------------------------------------
(* Codec claims, checked under SpecCodec *)

\* The text of the amount field of the row, << >> when the row has none.
AmountText == IF amount_field = << >> THEN << >> ELSE amount_field[1]

\* An unsigned integer part, then nothing or a '.' and a fractional part
\* of digits only.
HasFraction(str, digits) ==
    /\ Len(Split(str)) = 2
    /\ IsNumber(Split(str)[1])
    /\ IsNumber(Split(str)[2])
    /\ Len(Split(str)[2]) \in digits

\* C13: Amount parsing rejects excess precision. An amount with more than
\* four fractional digits fails to parse and the row gives no Operation.
C13_ExcessPrecisionRejected ==
    codecPc # "start" /\ amount_field # << >> /\ HasFraction(AmountText, 5..MaxLen) =>
        ~deserialized[1].ok

\* A well-formed amount: an unsigned integer part and at most four
\* fractional digits.
WellFormedAmount(str) == IsNumber(str) \/ HasFraction(str, 1..4)

RECURSIVE Pow10(_)
Pow10(n) == IF n = 0 THEN 1 ELSE 10 * Pow10(n - 1)

\* The decimal value a well-formed amount denotes, in ten-thousandths.
DecimalValue(str) ==
    LET parts == Split(str) IN
    DecimalNumber(parts[1]) * Scale
    + (IF Len(parts) = 2 THEN DecimalNumber(parts[2]) * Pow10(4 - Len(parts[2])) ELSE 0)

\* C14: Fixed-point round trip. A well-formed amount parses, and formatting
\* the parsed value gives a well-formed string that denotes the same decimal
\* value.
C14_RoundTrip ==
    amount_field # << >> /\ WellFormedAmount(AmountText) =>
        /\ codecPc # "start" => deserialized[1].ok
        /\ codecPc = "formatted" =>
            /\ WellFormedAmount(formatted[1])
            /\ DecimalValue(formatted[1]) = DecimalValue(AmountText)

\* C15: Optional amount. A Dispute, Resolve or Chargeback row whose amount
\* field is absent or empty decodes to an Operation with amount 0; a Deposit
\* or Withdrawal row with a missing or empty amount is rejected.
C15_OptionalAmount ==
    codecPc # "start" /\ AmountText = << >> =>
        IF record_type \in {"Dispute", "Resolve", "Chargeback"}
        THEN deserialized[1].ok /\ deserialized[1].value.amount = 0
        ELSE ~deserialized[1].ok

----------------------------------------------------------------------------
(* Ledger claims (SpecLedger) *)

\* Sum of the amounts of the retained transactions with the given status.
RECURSIVE SumTx(_, _, _)
SumTx(self, ids, status) ==
    IF ids = {} THEN 0
    ELSE LET t == CHOOSE x \in ids : TRUE IN
         (IF self.transactions[t].status = status
          THEN self.transactions[t].operation.amount ELSE 0)
         + SumTx(self, ids \ {t}, status)

RetainedSum(self) ==
    SumTx(self, DOMAIN self.transactions, "Normal")
    + SumTx(self, DOMAIN self.transactions, "Disputed")

\* C4: Frozen is terminal and immutable. An operation of any type, tx_id and
\* amount applied to a Frozen client leaves the whole ClientState as it was
\* (available, held, status, transactions); the status stays Frozen.
C4_FrozenImmutable ==
    (nops > 0 /\ pre.status = "Frozen") => (cs = pre /\ cs.status = "Frozen")

\* A Deposit was applied to a client that a Chargeback had frozen.
C4_Witness ==
    /\ pre.status = "Frozen"
    /\ last.type_ = "Deposit"
    /\ last.amount > 0
    /\ chargedBack > 0

\* C5: Balance accounting. After every applied operation, available + held
\* equals the applied Deposit amounts minus the amounts of the Withdrawals
\* that succeeded minus the amounts of the transactions charged back.
C5_BalanceAccounting ==
    cs.available + cs.held = deposited - withdrawn - chargedBack

\* A client with a reused deposit tx_id (more was deposited than the retained
\* records show), a Withdrawal that succeeded and a Chargeback.
C5_Witness ==
    /\ deposited > RetainedSum(cs)
    /\ withdrawn > 0
    /\ chargedBack > 0

\* C6: Dispute/Resolve inversion. On a Normal client, Dispute(tx) of a retained
\* Normal transaction immediately followed by Resolve(tx) gives back exactly
\* the state before the Dispute.
C6_DisputeResolveInverse ==
    ( /\ beforeDispute.age = 2
      /\ last.type_ = "Resolve"
      /\ last.tx_id = beforeDispute.tx_id )
    => cs = beforeDispute.state

\* Dispute then Resolve of a transaction with a non-zero amount: the Dispute
\* changed the state and the Resolve restored it.
C6_Witness ==
    /\ beforeDispute.age = 2
    /\ beforeDispute.state.transactions[beforeDispute.tx_id].operation.amount > 0
    /\ last.type_ = "Resolve"
    /\ last.tx_id = beforeDispute.tx_id
    /\ pre # beforeDispute.state
    /\ pre.held > 0
    /\ cs = beforeDispute.state

\* C7: Dispute idempotence. Dispute(tx) applied to a client whose transaction
\* tx is already Disputed leaves the whole state unchanged.
C7_DisputeIdempotent ==
    ( /\ last.type_ = "Dispute"
      /\ TxIs(pre, last.tx_id, "Disputed") )
    => cs = pre

\* A second consecutive Dispute of a transaction with a non-zero amount.
C7_Witness ==
    /\ last.type_ = "Dispute"
    /\ pre.status = "Normal"
    /\ TxIs(pre, last.tx_id, "Disputed")
    /\ pre.transactions[last.tx_id].operation.amount > 0
    /\ pre.held = pre.transactions[last.tx_id].operation.amount

\* C8: Reference integrity. A Dispute, Resolve or Chargeback whose tx_id is
\* not retained for the client leaves the client's state unchanged.
C8_UnknownTxNoOp ==
    ( /\ last.type_ \in {"Dispute", "Resolve", "Chargeback"}
      /\ ~HasTx(pre, last.tx_id) )
    => cs = pre

\* A Chargeback on a Normal client with funds, naming the tx_id of an earlier
\* Withdrawal that is not a retained deposit.
C8_Witness ==
    /\ last.type_ = "Chargeback"
    /\ pre.status = "Normal"
    /\ last.tx_id \in wids
    /\ ~HasTx(pre, last.tx_id)
    /\ pre.transactions # EmptyMap

\* C9: Over-withdrawal. On a Normal client a Withdrawal with amount > available
\* leaves the state unchanged, and one with amount <= available decreases
\* available by exactly the amount and changes nothing else; held funds do not
\* count.
C9_Withdrawal ==
    (last.type_ = "Withdrawal" /\ pre.status = "Normal")
    => IF last.amount > pre.available
       THEN cs = pre
       ELSE cs = [pre EXCEPT !.available = pre.available - last.amount]

\* A Withdrawal that available does not cover although available + held would.
C9_Witness ==
    /\ last.type_ = "Withdrawal"
    /\ pre.status = "Normal"
    /\ pre.held > 0
    /\ last.amount > pre.available
    /\ last.amount <= pre.available + pre.held

\* C10: Chargeback effect. Chargeback(tx) on a Normal client whose retained
\* transaction tx is Disputed decreases held by the transaction's amount,
\* leaves available unchanged, sets the transaction back to Normal and
\* freezes the client.
C10_ChargebackEffect ==
    ( /\ last.type_ = "Chargeback"
      /\ pre.status = "Normal"
      /\ TxIs(pre, last.tx_id, "Disputed") )
    => LET amount == pre.transactions[last.tx_id].operation.amount IN
       /\ cs.held = pre.held - amount
       /\ cs.available = pre.available
       /\ cs.status = "Frozen"
       /\ cs.client = pre.client
       /\ cs.transactions = [pre.transactions EXCEPT ![last.tx_id].status = "Normal"]

\* A Chargeback of a deposit whose funds were partly withdrawn: the total
\* drops below zero.
C10_Witness ==
    /\ last.type_ = "Chargeback"
    /\ pre.status = "Normal"
    /\ TxIs(pre, last.tx_id, "Disputed")
    /\ pre.transactions[last.tx_id].operation.amount > 0
    /\ cs.status = "Frozen"
    /\ cs.available + cs.held < 0

\* C22: Resolve and Chargeback need a live dispute. On a Normal client, a
\* Resolve or a Chargeback that names a retained transaction whose status is
\* Normal leaves the whole state as it was; such a Chargeback does not freeze
\* the account.
C22_NeedsLiveDispute ==
    (/\ nops > 0
     /\ pre.status = "Normal"
     /\ last.type_ \in {"Resolve", "Chargeback"}
     /\ TxIs(pre, last.tx_id, "Normal"))
    => (cs = pre /\ cs.status = "Normal")

\* A Chargeback named a retained transaction that is Normal, while another
\* transaction of the client is under dispute.
C22_Witness ==
    /\ nops > 0
    /\ pre.status = "Normal"
    /\ last.type_ = "Chargeback"
    /\ TxIs(pre, last.tx_id, "Normal")
    /\ pre.held > 0
    /\ cs.status = "Normal"

\* C23: held equals the sum of the amounts of the retained transactions
\* whose status is Disputed, in every reachable ClientState, also after a
\* Deposit that reuses the tx_id of a transaction under dispute.
C23_HeldIsDisputedSum ==
    cs.held = SumTx(cs, DOMAIN cs.transactions, "Disputed")

\* C24: held is never negative, also after deposits that reuse a tx_id; when
\* available becomes negative, the operation that made it so is a Dispute.
C24_HeldNonNegative ==
    /\ cs.held >= 0
    /\ (nops > 0 /\ cs.available < 0 /\ pre.available >= 0) => last.type_ = "Dispute"

\* After a deposit that reused a tx_id and a withdrawal, a Dispute has made
\* available negative and held positive.
C24_Witness ==
    /\ nops > 0
    /\ last.type_ = "Dispute"
    /\ cs.available < 0
    /\ pre.available >= 0
    /\ cs.held > 0
    /\ deposited > RetainedSum(cs)

\* C25: The amount formatting is injective. serialize_fractional writes two
\* different amounts as two different strings; a negative amount is not
\* written like a non-negative one.
C25_FormatInjective ==
    (Len(texts) = 2 /\ values[1] # values[2]) => texts[1] # texts[2]

====
